---- MODULE Spec2Model ----
(***************************************************************************)
(* The conformance-runner HTTP service of runner_windows/runner.py: the    *)
(* POST /run handler `run` and the process invoker `run_ebpf_conformance`. *)
(* One request is handled at a time; the handler is cut at the points      *)
(* where it blocks or where an exception can leave it.                     *)
(***************************************************************************)
EXTENDS Integers, Sequences, FiniteSets, TLC

VARIABLES
    pc,        \* position of the handler: idle, validate, mkdtemp, write, invoke, wait, responded
    body,      \* the raw request body
    data,      \* request.get_json()
    temp_dir,  \* the TemporaryDirectory of the request in progress
    dirs,      \* directories that exist on disk
    files,     \* files that exist on disk, [dir, name, content]
    timeout,   \* the local `timeout` of run, passed on as timeout_seconds
    proc,      \* the subprocess of subprocess.run
    response,  \* what the handler returned
    staged,    \* a staging directory was created for this request
    invoked,   \* run_ebpf_conformance was called for this request
    outcome    \* which path the request took

vars == <<pc, body, data, temp_dir, dirs, files, timeout, proc, response,
          staged, invoked, outcome>>

----------------------------------------------------------------------------
(* Bounds of the model *)

MaxTimeout == 2      \* 'timeout' numbers a request carries: 0..MaxTimeout
MaxRunTime == 3      \* seconds after which an exiting tool exits: 0..MaxRunTime
MaxExitCode == 2     \* exit codes of the tool: 0..MaxExitCode

DEFAULT_TIMEOUT == 30

----------------------------------------------------------------------------
(* JSON values *)

JNull == [t |-> "null"]
JNum(n) == [t |-> "num", v |-> n]
JStr(s) == [t |-> "str", v |-> s]
JList(l) == [t |-> "list", v |-> l]
JObj(m) == [t |-> "obj", v |-> m]
Unset == [t |-> "unset"]
Absent == [t |-> "absent"]
InvalidJson == [t |-> "invalid"]

\* Text is a sequence of tokens; the literal 'program' is one token.
PROGRAM_KEY == <<"program">>

ProgramValues == {Absent, JStr(<<"p">>), JNull, JNum(5)}
TimeoutValues == {Absent, JNull, JStr(<<"abc">>)} \cup {JNum(n) : n \in 0..MaxTimeout}

ObjectOf(p, to) ==
    LET val(k) == IF k = "program" THEN p ELSE to
    IN  JObj([k \in {kk \in {"program", "timeout"} : val(kk) # Absent} |-> val(k)])

Bodies ==
    {InvalidJson, JNull, JNum(0), JNum(5),
     JStr(<<>>), JStr(<<"x">>), JStr(<<"a", "program", "b">>),
     JList(<<>>), JList(<<JStr(<<"x">>)>>), JList(<<JStr(PROGRAM_KEY)>>)}
    \cup {ObjectOf(p, to) : p \in ProgramValues, to \in TimeoutValues}

DirNames == {"tmp1", "tmp2"}
Outputs == {<<>>, <<"o">>}

----------------------------------------------------------------------------
(* Python expressions of the handler *)

\* `not data`
Falsy(d) ==
    CASE d.t = "null" -> TRUE
      [] d.t = "num"  -> d.v = 0
      [] d.t = "str"  -> d.v = <<>>
      [] d.t = "list" -> d.v = <<>>
      [] d.t = "obj"  -> DOMAIN d.v = {}
      [] OTHER        -> FALSE

\* `'program' in data` raises TypeError when data is not a container
InRaises(d) == d.t \notin {"str", "list", "obj"}

\* `'program' in data`
ProgramIn(d) ==
    CASE d.t = "obj"  -> "program" \in DOMAIN d.v
      [] d.t = "list" -> \E i \in 1..Len(d.v) : d.v[i] = JStr(PROGRAM_KEY)
      [] d.t = "str"  -> \E i \in 1..Len(d.v) :
                            /\ i + Len(PROGRAM_KEY) - 1 <= Len(d.v)
                            /\ SubSeq(d.v, i, i + Len(PROGRAM_KEY) - 1) = PROGRAM_KEY
      [] OTHER        -> FALSE

\* Validate without the test for the key
ValidateKeyNotChecked(d) ==
    IF Falsy(d) THEN "reject" ELSE "pass"

\* the test of line 56: "reject", "raise" (TypeError) or "pass"
Validate(d) ==
    IF Falsy(d) THEN "reject"
    ELSE IF InRaises(d) THEN "raise"
    ELSE IF ~ProgramIn(d) THEN "reject"
    ELSE "pass"

\* `data['program']` raises (TypeError on a list or a string, KeyError) unless
\* data is an object with the key
SubscriptRaises(d) == d.t # "obj" \/ "program" \notin DOMAIN d.v

\* `f.write(data['program'])` raises TypeError unless the value is text
WriteRaises(d) == SubscriptRaises(d) \/ d.v["program"].t # "str"

\* `data.get('timeout', 30)`
GetTimeout(d) ==
    IF "timeout" \in DOMAIN d.v THEN d.v["timeout"] ELSE JNum(DEFAULT_TIMEOUT)

\* str() of a non-negative integer: its decimal digits
RECURSIVE Str(_)
Str(n) ==
    LET digit(k) == <<"0", "1", "2", "3", "4", "5", "6", "7", "8", "9">>[k + 1]
    IN  IF n < 10 THEN <<digit(n)>> ELSE Str(n \div 10) \o <<digit(n % 10)>>

----------------------------------------------------------------------------
(* Results of run_ebpf_conformance *)

\* CompletedResult reporting a non-zero exit in the error shape
CompletedResultAsError(p) ==
    IF p.code = 0
    THEN [success |-> TRUE, stdout |-> p.out, stderr |-> p.err, return_code |-> p.code]
    ELSE [success |-> FALSE,
          error |-> [prefix |-> "Process exited with code ", arg |-> Str(p.code), suffix |-> ""]]

\* lines 31-36
CompletedResult(p) ==
    [success |-> p.code = 0, stdout |-> p.out, stderr |-> p.err, return_code |-> p.code]

\* TimedOutResult naming the default instead of the timeout used
TimedOutResultDefault(timeout_seconds) ==
    [success |-> FALSE,
     error |-> [prefix |-> "Process timed out after ",
                arg |-> Str(DEFAULT_TIMEOUT), suffix |-> " seconds"]]

\* lines 37-41
TimedOutResult(timeout_seconds) ==
    [success |-> FALSE,
     error |-> [prefix |-> "Process timed out after ",
                arg |-> Str(timeout_seconds.v), suffix |-> " seconds"]]

\* lines 42-46
LaunchFailureResult(e) ==
    [success |-> FALSE,
     error |-> [prefix |-> "Failed to run conformance test: ", arg |-> e, suffix |-> ""]]

----------------------------------------------------------------------------
(* Responses of run *)

NoResponse == [code |-> 0]
MISSING_PROGRAM == <<"Request must include 'program' field">>

BadRequestResponse ==
    [code |-> 400, body |-> [status |-> "error", message |-> MISSING_PROGRAM]]

ServerErrorResponse(e) ==
    [code |-> 500, body |-> [status |-> "error", message |-> <<"Server error: ", e>>]]

ResultResponse(result) ==
    [code |-> 200,
     body |-> [status |-> IF result.success THEN "success" ELSE "error",
               result |-> result]]

\* Cleanup that leaves the directory behind
CleanupLeak(ds, d) == ds

\* TemporaryDirectory.__exit__: the directory and what it holds are removed
Cleanup(ds, d) == ds \ {d}

NoProc == [started |-> FALSE, alive |-> FALSE, exits |-> FALSE, runtime |-> 0,
           code |-> 0, out |-> <<>>, err |-> <<>>, elapsed |-> 0]

Init ==
    /\ pc = "idle"
    /\ body = Unset
    /\ data = Unset
    /\ temp_dir = "none"
    /\ dirs = {}
    /\ files = {}
    /\ timeout = Unset
    /\ proc = NoProc
    /\ response = NoResponse
    /\ staged = FALSE
    /\ invoked = FALSE
    /\ outcome = "none"

\* the handler returns `resp`; leaving the `with` block removes the directory
Respond(resp, how) ==
    /\ response' = resp
    /\ outcome' = how
    /\ pc' = "responded"

LeaveWith ==
    /\ dirs' = Cleanup(dirs, temp_dir)
    /\ files' = {f \in files : f.dir \notin (dirs \ dirs')}
    /\ temp_dir' = "none"

----------------------------------------------------------------------------
(* Steps of the handler *)

\* a POST /run arrives
Request ==
    /\ pc = "idle"
    /\ \E b \in Bodies : body' = b
    /\ pc' = "validate"
    /\ UNCHANGED <<data, temp_dir, dirs, files, timeout, proc, response,
                   staged, invoked, outcome>>

\* request.get_json() and the test for 'program'
GetJsonAndValidate ==
    /\ pc = "validate"
    /\ IF body = InvalidJson
       THEN \* get_json raises BadRequest inside the try block
            /\ Respond(ServerErrorResponse("400 Bad Request"), "bad_json")
            /\ UNCHANGED data
       ELSE /\ data' = body
            /\ CASE Validate(body) = "reject" ->
                      Respond(BadRequestResponse, "missing_program")
                 [] Validate(body) = "raise" ->
                      Respond(ServerErrorResponse("TypeError"), "validate_type_error")
                 [] OTHER ->
                      /\ pc' = "mkdtemp"
                      /\ UNCHANGED <<response, outcome>>
    /\ UNCHANGED <<body, temp_dir, dirs, files, timeout, proc, staged, invoked>>

\* tempfile.TemporaryDirectory()
MkTemp ==
    /\ pc = "mkdtemp"
    /\ \E fault \in BOOLEAN :
         IF fault
         THEN /\ Respond(ServerErrorResponse("OSError"), "mkdtemp_fault")
              /\ UNCHANGED <<temp_dir, dirs, staged>>
         ELSE \E d \in DirNames \ dirs :
                /\ temp_dir' = d
                /\ dirs' = dirs \cup {d}
                /\ staged' = TRUE
                /\ pc' = "write"
                /\ UNCHANGED <<response, outcome>>
    /\ UNCHANGED <<body, data, files, timeout, proc, invoked>>

\* open(prog_path, 'w'), f.write(data['program']), data.get('timeout', 30)
WriteProgram ==
    /\ pc = "write"
    /\ \E fault \in BOOLEAN :
         IF fault
         THEN /\ Respond(ServerErrorResponse("OSError"), "open_fault")
              /\ LeaveWith
              /\ UNCHANGED timeout
         ELSE IF WriteRaises(data)
         THEN /\ Respond(ServerErrorResponse("TypeError"), "write_type_error")
              /\ LeaveWith
              /\ UNCHANGED timeout
         ELSE /\ files' = files \cup {[dir |-> temp_dir, name |-> "test.prog",
                                       content |-> data.v["program"].v]}
              /\ timeout' = GetTimeout(data)
              /\ pc' = "invoke"
              /\ UNCHANGED <<temp_dir, dirs, response, outcome>>
    /\ UNCHANGED <<body, data, proc, staged, invoked>>

\* run_ebpf_conformance is entered and subprocess.run starts the runner
Launch ==
    /\ pc = "invoke"
    /\ invoked' = TRUE
    /\ \E how \in {"started", "oserror", "subprocess_error"} :
         CASE how = "oserror" ->
                \* FileNotFoundError, PermissionError: not a SubprocessError
                /\ Respond(ServerErrorResponse("OSError"), "launch_oserror")
                /\ LeaveWith
                /\ UNCHANGED proc
           [] how = "subprocess_error" ->
                /\ Respond(ResultResponse(LaunchFailureResult(<<"e">>)),
                           "launch_subprocess_error")
                /\ LeaveWith
                /\ UNCHANGED proc
           [] OTHER ->
                \E ex \in BOOLEAN, rt \in 0..MaxRunTime, c \in 0..MaxExitCode,
                   o \in Outputs, e \in Outputs :
                  LET p == [started |-> TRUE, alive |-> TRUE, exits |-> ex,
                            runtime |-> IF ex THEN rt ELSE 0, code |-> c,
                            out |-> o, err |-> e, elapsed |-> 0]
                  IN  IF timeout.t \notin {"num", "null"}
                      THEN \* communicate: _time() + timeout raises TypeError;
                           \* subprocess.run kills the child and re-raises
                           /\ proc' = [p EXCEPT !.alive = FALSE]
                           /\ Respond(ServerErrorResponse("TypeError"),
                                      "timeout_type_error")
                           /\ LeaveWith
                      ELSE /\ proc' = p
                           /\ pc' = "wait"
                           /\ UNCHANGED <<temp_dir, dirs, files, response, outcome>>
    /\ UNCHANGED <<body, data, timeout, staged>>

\* a second passes while communicate() waits
Tick ==
    /\ pc = "wait"
    /\ proc.alive
    /\ proc.exits \/ timeout.t = "num"
    /\ proc.exits => proc.elapsed < proc.runtime
    /\ timeout.t = "num" => proc.elapsed < timeout.v
    /\ proc' = [proc EXCEPT !.elapsed = @ + 1]
    /\ UNCHANGED <<pc, body, data, temp_dir, dirs, files, timeout, response,
                   staged, invoked, outcome>>

\* the runner exits; lines 31-36 and 81-86
ProcExit ==
    /\ pc = "wait"
    /\ proc.alive
    /\ proc.exits
    /\ proc.elapsed = proc.runtime
    /\ proc' = [proc EXCEPT !.alive = FALSE]
    /\ Respond(ResultResponse(CompletedResult(proc)), "completed")
    /\ LeaveWith
    /\ UNCHANGED <<body, data, timeout, staged, invoked>>

\* the deadline passes: subprocess.run kills the runner and raises TimeoutExpired
DeadlineExpired ==
    /\ pc = "wait"
    /\ proc.alive
    /\ timeout.t = "num"
    /\ proc.elapsed >= timeout.v
    /\ proc' = [proc EXCEPT !.alive = FALSE]
    /\ Respond(ResultResponse(TimedOutResult(timeout)), "timed_out")
    /\ LeaveWith
    /\ UNCHANGED <<body, data, timeout, staged, invoked>>

\* the response is sent; the service waits for the next request
Return ==
    /\ pc = "responded"
    /\ pc' = "idle"
    /\ body' = Unset
    /\ data' = Unset
    /\ timeout' = Unset
    /\ proc' = NoProc
    /\ response' = NoResponse
    /\ staged' = FALSE
    /\ invoked' = FALSE
    /\ outcome' = "none"
    /\ UNCHANGED <<temp_dir, dirs, files>>

Handler ==
    \/ GetJsonAndValidate
    \/ MkTemp
    \/ WriteProgram
    \/ Launch
    \/ Tick
    \/ ProcExit
    \/ DeadlineExpired
    \/ Return

Next ==
    \/ Request
    \/ GetJsonAndValidate
    \/ MkTemp
    \/ WriteProgram
    \/ Launch
    \/ Tick
    \/ ProcExit
    \/ DeadlineExpired
    \/ Return

Spec == Init /\ [][Next]_vars

\* The handler runs synchronously and the operating system runs the child
\* and the clock: a step of the handler that can be taken is taken.
FairSpec == Init /\ [][Next]_vars /\ WF_vars(Handler)

----------------------------------------------------------------------------
(* The request as the client sent it *)

HasProgram(b) == b.t = "obj" /\ "program" \in DOMAIN b.v

HasTimeout(b) == b.t = "obj" /\ "timeout" \in DOMAIN b.v

Responded == pc = "responded"

\* the request met a filesystem error that has nothing to do with its content
DiskFault == outcome \in {"mkdtemp_fault", "open_fault"}

HasResult == Responded /\ "result" \in DOMAIN response.body

\* the deadline the request asks for, when it asks for a number or for none
NumericDeadline(b) == HasProgram(b) /\ (HasTimeout(b) => b.v["timeout"].t = "num")

DeadlineOf(b) == IF HasTimeout(b) THEN b.v["timeout"].v ELSE 30

----------------------------------------------------------------------------
(* C1: when the handler has returned its response, and between requests,   *)
(* no staging directory and no staged program file exists, whatever the    *)
(* outcome of the request was.                                             *)
C1_StagingRemoved ==
    pc \in {"responded", "idle"} => dirs = {} /\ files = {} /\ temp_dir = "none"

C1_Witness ==
    /\ Responded
    /\ staged
    /\ outcome = "timed_out"
    /\ dirs = {}

(* C2: a JSON object without a 'program' key is answered with HTTP 400 and *)
(* the fixed message; no staging directory is created for it and the       *)
(* invoker is never called.                                                *)
C2_MissingProgramRejected ==
    (body.t = "obj" /\ "program" \notin DOMAIN body.v) =>
        /\ ~staged
        /\ ~invoked
        /\ Responded =>
             /\ response.code = 400
             /\ response.body = [status |-> "error",
                                 message |-> <<"Request must include 'program' field">>]

C2_Witness ==
    /\ Responded
    /\ body.t = "obj"
    /\ DOMAIN body.v = {"timeout"}
    /\ response.code = 400

(* C3: a body that does not decode to an object with a 'program' key (not  *)
(* JSON, or JSON that is not an object) is answered with HTTP 400 and the  *)
(* fixed message, never with HTTP 500.                                     *)
C3_NotAnObjectRejected ==
    (Responded /\ ~HasProgram(body) /\ ~DiskFault) =>
        /\ response.code = 400
        /\ response.body = [status |-> "error",
                            message |-> <<"Request must include 'program' field">>]

(* C4: when the runner cannot be started (an OS-level error), the invoker  *)
(* returns the LaunchFailure result and the request is answered with HTTP  *)
(* 200 and status "error", not with HTTP 500.                              *)
C4_LaunchFailureIsAResult ==
    (Responded /\ outcome = "launch_oserror") =>
        /\ response.code = 200
        /\ response.body.status = "error"
        /\ "result" \in DOMAIN response.body
        /\ response.body.result.success = FALSE
        /\ response.body.result.error.prefix = "Failed to run conformance test: "

(* C5: a request that reached the invoker is answered with a result whose  *)
(* success is true, and with status "success", exactly when the runner     *)
(* exited within the deadline with exit code 0; for every other outcome    *)
(* success is false and the status is "error".                             *)
C5_SuccessIffExitZero ==
    (Responded /\ invoked) =>
        /\ "result" \in DOMAIN response.body
        /\ response.body.result.success = (outcome = "completed" /\ proc.code = 0)
        /\ (response.body.status = "success") = response.body.result.success
        /\ response.body.status \in {"success", "error"}

(* C6: a result is either Completed-shaped (success, stdout, stderr,       *)
(* return_code) or error-shaped (success, error), never a mix; a runner    *)
(* that ran to completion, also with a non-zero exit code, gives HTTP 200  *)
(* and the Completed shape with its exit code and output; a timeout or a   *)
(* launch failure reported as a result has the error shape.                *)
C6_ResultShapes ==
    HasResult =>
        LET r == response.body.result
        IN  /\ \/ DOMAIN r = {"success", "stdout", "stderr", "return_code"}
               \/ DOMAIN r = {"success", "error"}
            /\ outcome = "completed" =>
                 /\ response.code = 200
                 /\ DOMAIN r = {"success", "stdout", "stderr", "return_code"}
                 /\ r.return_code = proc.code
                 /\ r.stdout = proc.out
                 /\ r.stderr = proc.err
            /\ outcome \in {"timed_out", "launch_subprocess_error"} =>
                 DOMAIN r = {"success", "error"}

C6_Witness ==
    /\ HasResult
    /\ outcome = "completed"
    /\ proc.code # 0
    /\ proc.out # <<>>
    /\ response.code = 200
    /\ response.body.result.return_code = proc.code

(* C7: when the runner has not exited within the timeout of the request    *)
(* (its 'timeout' number, or 30 when it has none), the runner has been     *)
(* killed when the handler responds, and the response is HTTP 200 with     *)
(* success false and "Process timed out after <N> seconds", N the timeout  *)
(* used.                                                                   *)
C7_TimeoutReported ==
    (/\ Responded
     /\ proc.started
     /\ NumericDeadline(body)
     /\ \/ outcome = "timed_out"
        \/ ~proc.exits
        \/ proc.runtime > DeadlineOf(body)) =>
        /\ ~proc.alive
        /\ response =
             [code |-> 200,
              body |-> [status |-> "error",
                        result |-> [success |-> FALSE,
                                    error |-> [prefix |-> "Process timed out after ",
                                               arg |-> Str(DeadlineOf(body)),
                                               suffix |-> " seconds"]]]]

C7_Witness ==
    /\ Responded
    /\ outcome = "timed_out"
    /\ HasTimeout(body)
    /\ body.v["timeout"] = JNum(2)
    /\ proc.exits
    /\ proc.runtime > 2
    /\ ~proc.alive

(* C8: every request the service receives, whose 'timeout' is absent, a    *)
(* number or null, is eventually answered, also when the runner never      *)
(* exits on its own.                                                       *)
C8_EveryRequestAnswered ==
    (pc = "validate" /\ (HasTimeout(body) => body.v["timeout"].t \in {"num", "null"}))
        ~> Responded

(* C9: the timeout passed to the invoker is 30 whenever the request has no *)
(* 'timeout' field or a 'timeout' that is not a number, such as a string,  *)
(* and such a request does not fail because of its timeout.                *)
C9_NonNumericTimeoutDefaults ==
    (/\ pc \in {"invoke", "wait", "responded"}
     /\ timeout # Unset
     /\ HasProgram(body)
     /\ HasTimeout(body) => body.v["timeout"].t = "str") =>
        /\ timeout = JNum(30)
        /\ outcome # "timeout_type_error"

(* C10: a request whose 'program' is present but null, or otherwise not    *)
(* text, is answered with HTTP 400 and no subprocess is invoked for it.    *)
C10_NullProgramRejected ==
    (Responded /\ HasProgram(body) /\ body.v["program"].t # "str" /\ ~DiskFault) =>
        /\ response.code = 400
        /\ ~invoked

====
